---- MODULE Spec2Model ----
(***************************************************************************)
(* Knockout-tournament engine of src/src/App.jsx: makeRound, deriveCursor, *)
(* buildTournament, fastForwardIfNeeded and applyPick, driven by the two   *)
(* host entry points that call them (card tap -> applyPick, "Continue" ->  *)
(* fastForwardIfNeeded).                                                   *)
(*                                                                         *)
(* Indices are kept 0-based as in the source (roundIndex, cursor.match);   *)
(* a JavaScript array x is a TLA+ sequence, so x[i] is written x[i + 1].   *)
(***************************************************************************)
EXTENDS Integers, Sequences, FiniteSets, TLC

VARIABLES tracks, tournament, entrants, round,
          isAdvancing, timers, loading, inflight

\* The host's state besides tracks and tournament: the isAdvancing flag, the
\* setTimeout callbacks not yet run (the side each will apply and, for the
\* record, the tournament that was shown when it was scheduled), whether a
\* playlist fetch is under way, and applyPick results computed but not yet
\* stored.
hostVars == <<isAdvancing, timers, loading, inflight>>

vars == <<tracks, tournament, entrants, round, hostVars>>

\* No tap, no fetch and no update is pending.
HostIdle ==
  /\ isAdvancing = FALSE
  /\ timers = <<>>
  /\ loading = FALSE
  /\ inflight = <<>>

\* ------------------------------------------------------------------------
\* Bounds
\* ------------------------------------------------------------------------
\* Largest entrant list handed to buildTournament / makeRound.
MaxEntrants == 5
\* Largest list whose reorderings are compared.
MaxReordered == 5
\* Largest entrant list of a tournament whose picks are computed from a
\* stale snapshot.
MaxRaced == 3
\* Largest playlist loaded into the host.
MaxLoaded == 3
\* Most setTimeout callbacks pending at a time.
MaxTimers == 2
\* Popularity scores range over 0..MaxPopularity.
MaxPopularity == 2

\* ------------------------------------------------------------------------
\* Values
\* ------------------------------------------------------------------------
\* JavaScript null (also what JSON turns an absent value into).
Null == [null |-> TRUE]

Sides == {"a", "b"}

\* An entrant as the loader hands it over: id and popularity (the display
\* fields play no part in the engine).
Track(i, p) == [id |-> i, popularity |-> p]

\* An entrant whose popularity field is absent.
TrackNoPopularity(i) == [id |-> i]

\* An entrant list as fetchPlaylistTracks returns it: every entry present,
\* ids unique (here: the list position), popularity always a number.  pops
\* gives the popularity of each position.
trackList(pops) == [i \in DOMAIN pops |-> Track(i, pops[i])]

\* An argument list of makeRound: an entry may be null, and a present entry
\* may lack its popularity; kinds[i] is -2 for a null entry, -1 for an entry
\* without popularity field, and the popularity otherwise.
survivorList(kinds) ==
  [i \in DOMAIN kinds |-> IF kinds[i] = -2 THEN Null
                          ELSE IF kinds[i] = -1 THEN TrackNoPopularity(i)
                          ELSE Track(i, kinds[i])]

\* (x?.popularity ?? 0)
Popularity(x) ==
  IF x # Null /\ "popularity" \in DOMAIN x THEN x.popularity ELSE 0

\* ------------------------------------------------------------------------
\* deepClone: JSON.parse(JSON.stringify(x)), rebuilt value by value.  A key
\* whose value is undefined is dropped, null stays null.
\* ------------------------------------------------------------------------
\* Variant of cloneTrack: the copy keeps the id only.
cloneTrackIdOnly(x) ==
  IF x = Null THEN Null ELSE [id |-> x.id]

cloneTrack(x) ==
  IF x = Null THEN Null
  ELSE IF "popularity" \in DOMAIN x
       THEN [id |-> x.id, popularity |-> x.popularity]
       ELSE [id |-> x.id]

cloneMatch(m) ==
  IF m = Null THEN Null
  ELSE IF "id" \in DOMAIN m
       THEN [a |-> cloneTrack(m.a), b |-> cloneTrack(m.b),
             winner |-> cloneTrack(m.winner), id |-> m.id]
       ELSE [a |-> cloneTrack(m.a), b |-> cloneTrack(m.b),
             winner |-> cloneTrack(m.winner)]

cloneRound(r) ==
  IF r.type = "three"
  THEN [type |-> r.type,
        entrants |-> [i \in DOMAIN r.entrants |-> cloneTrack(r.entrants[i])],
        top |-> cloneTrack(r.top),
        match |-> cloneMatch(r.match),
        final |-> cloneMatch(r.final),
        winners |-> r.winners]
  ELSE [type |-> r.type,
        entrants |-> [i \in DOMAIN r.entrants |-> cloneTrack(r.entrants[i])],
        bye |-> cloneTrack(r.bye),
        matches |-> [i \in DOMAIN r.matches |-> cloneMatch(r.matches[i])],
        winners |-> r.winners]

deepClone(t) ==
  IF t = Null THEN Null
  ELSE [roundIndex |-> t.roundIndex,
        rounds |-> [i \in DOMAIN t.rounds |-> cloneRound(t.rounds[i])],
        cursor |-> t.cursor,
        champion |-> cloneTrack(t.champion),
        history |-> t.history]

\* ------------------------------------------------------------------------
\* sortByPopularityDesc: [...list].sort((a, b) => pop(b) - pop(a)).
\* Array.prototype.sort is stable, so x precedes y in the result iff x is
\* more popular, or equally popular and earlier in the input.
\* ------------------------------------------------------------------------
\* Variant of sortByPopularityDesc: the list is returned in input order.
sortByPopularityDescUnsorted(list) == list

\* Variant of sortByPopularityDesc: equally popular entrants come out in
\* reverse input order.
sortByPopularityDescTiesReversed(list) ==
  LET n == Len(list)
      before(j, i) ==
        \/ Popularity(list[j]) > Popularity(list[i])
        \/ Popularity(list[j]) = Popularity(list[i]) /\ j > i
      pos(i) == Cardinality({j \in 1..n : before(j, i)}) + 1
  IN [k \in 1..n |-> list[CHOOSE i \in 1..n : pos(i) = k]]

sortByPopularityDesc(list) ==
  LET n == Len(list)
      before(j, i) ==
        \/ Popularity(list[j]) > Popularity(list[i])
        \/ Popularity(list[j]) = Popularity(list[i]) /\ j < i
      pos(i) == Cardinality({j \in 1..n : before(j, i)}) + 1
  IN [k \in 1..n |-> list[CHOOSE i \in 1..n : pos(i) = k]]

\* ------------------------------------------------------------------------
\* makeRound
\* ------------------------------------------------------------------------
\* (entrants || []).filter(Boolean)
aliveOf(es) == SelectSeq(es, LAMBDA e : e # Null)

\* Variant: the bye goes to the least popular entrant.
roundByeWeakest(sorted) ==
  IF Len(sorted) % 2 = 1 THEN sorted[Len(sorted)] ELSE Null

\* if (sorted.length % 2 === 1) bye = sorted[0]
roundBye(sorted) == IF Len(sorted) % 2 = 1 THEN sorted[1] ELSE Null

\* Variant of roundPool: pool = sorted, the bye is not taken out.
roundPoolKeepsBye(sorted) == sorted

\* if (sorted.length % 2 === 1) pool = sorted.slice(1)
roundPool(sorted) == IF Len(sorted) % 2 = 1 THEN Tail(sorted) ELSE sorted

\* Variant: neighbours in the ranking are paired (1st v 2nd, 3rd v 4th, ...).
roundMatchesAdjacent(pool) ==
  [k \in 1..((Len(pool) + 1) \div 2) |->
     [a |-> pool[2 * k - 1],
      b |-> pool[IF 2 * k <= Len(pool) THEN 2 * k ELSE 2 * k - 1],
      winner |-> Null,
      id |-> <<pool[2 * k - 1].id,
               pool[IF 2 * k <= Len(pool) THEN 2 * k ELSE 2 * k - 1].id,
               k - 1>>]]

\* for (i = 0; i < pool.length / 2; i++) matches.push({a: pool[i], ...})
roundMatches(pool) ==
  [k \in 1..((Len(pool) + 1) \div 2) |->
     [a |-> pool[k],
      b |-> pool[Len(pool) + 1 - k],
      winner |-> Null,
      id |-> <<pool[k].id, pool[Len(pool) + 1 - k].id, k - 1>>]]

\* Variant: the qualifier is played by the two most popular entrants.
threeRoundTopPlays(sorted) ==
  [type |-> "three",
   entrants |-> sorted,
   top |-> sorted[3],
   match |-> [a |-> sorted[1], b |-> sorted[2], winner |-> Null],
   final |-> Null,
   winners |-> <<>>]

\* if (alive.length === 3) return { type: "three", ... }
threeRound(sorted) ==
  [type |-> "three",
   entrants |-> sorted,
   top |-> sorted[1],
   match |-> [a |-> sorted[2], b |-> sorted[3], winner |-> Null],
   final |-> Null,
   winners |-> <<>>]

\* Variant of makeRound: only the empty list gives a done round.
makeRoundDoneOnlyWhenEmpty(es) ==
  LET alive == aliveOf(es)
      sorted == sortByPopularityDesc(alive)
  IN IF Len(alive) < 1
     THEN [type |-> "done", entrants |-> alive, bye |-> Null,
           matches |-> <<>>, winners |-> <<>>]
     ELSE IF Len(alive) = 3
     THEN threeRound(sorted)
     ELSE [type |-> "normal", entrants |-> sorted, bye |-> roundBye(sorted),
           matches |-> roundMatches(roundPool(sorted)), winners |-> <<>>]

makeRound(es) ==
  LET alive == aliveOf(es)
      sorted == sortByPopularityDesc(alive)
  IN IF Len(alive) <= 1
     THEN [type |-> "done", entrants |-> alive, bye |-> Null,
           matches |-> <<>>, winners |-> <<>>]
     ELSE IF Len(alive) = 3
     THEN threeRound(sorted)
     ELSE [type |-> "normal", entrants |-> sorted, bye |-> roundBye(sorted),
           matches |-> roundMatches(roundPool(sorted)), winners |-> <<>>]

\* Variant of deriveCursor: a three round with a decided qualifier is taken
\* to be complete (the final is never offered).
deriveCursorNoFinal(t) ==
  IF t = Null THEN Null
  ELSE IF (t.roundIndex + 1) \notin DOMAIN t.rounds THEN Null
  ELSE
    LET r == t.rounds[t.roundIndex + 1]
        open == {i \in DOMAIN r.matches :
                   /\ r.matches[i].winner = Null
                   /\ r.matches[i].a # Null
                   /\ r.matches[i].b # Null}
        idx == CHOOSE i \in open : \A j \in open : i <= j
    IN IF r.type = "three"
       THEN IF r.match.winner = Null
            THEN [round |-> t.roundIndex, special |-> "three"]
            ELSE Null
       ELSE IF r.type = "normal"
       THEN IF open # {}
            THEN [round |-> t.roundIndex, match |-> idx - 1]
            ELSE Null
       ELSE Null

\* Variant of deriveCursor: findIndex((m) => m.a && m.b), decided matches
\* are not skipped.
deriveCursorIgnoresWinner(t) ==
  IF t = Null THEN Null
  ELSE IF (t.roundIndex + 1) \notin DOMAIN t.rounds THEN Null
  ELSE
    LET r == t.rounds[t.roundIndex + 1]
        open == {i \in DOMAIN r.matches :
                   /\ r.matches[i].a # Null
                   /\ r.matches[i].b # Null}
        idx == CHOOSE i \in open : \A j \in open : i <= j
    IN IF r.type = "three"
       THEN IF r.match.winner = Null
            THEN [round |-> t.roundIndex, special |-> "three"]
            ELSE IF r.final # Null /\ r.final.winner = Null
            THEN [round |-> t.roundIndex, special |-> "final"]
            ELSE Null
       ELSE IF r.type = "normal"
       THEN IF open # {}
            THEN [round |-> t.roundIndex, match |-> idx - 1]
            ELSE Null
       ELSE Null

\* Variant of deriveCursor: the last pending match is taken, as with
\* findLastIndex.
deriveCursorLastPending(t) ==
  IF t = Null THEN Null
  ELSE IF (t.roundIndex + 1) \notin DOMAIN t.rounds THEN Null
  ELSE
    LET r == t.rounds[t.roundIndex + 1]
        open == {i \in DOMAIN r.matches :
                   /\ r.matches[i].winner = Null
                   /\ r.matches[i].a # Null
                   /\ r.matches[i].b # Null}
        idx == CHOOSE i \in open : \A j \in open : i >= j
    IN IF r.type = "three"
       THEN IF r.match.winner = Null
            THEN [round |-> t.roundIndex, special |-> "three"]
            ELSE IF r.final # Null /\ r.final.winner = Null
            THEN [round |-> t.roundIndex, special |-> "final"]
            ELSE Null
       ELSE IF r.type = "normal"
       THEN IF open # {}
            THEN [round |-> t.roundIndex, match |-> idx - 1]
            ELSE Null
       ELSE Null

\* ------------------------------------------------------------------------
\* deriveCursor
\* ------------------------------------------------------------------------
deriveCursor(t) ==
  IF t = Null THEN Null
  ELSE IF (t.roundIndex + 1) \notin DOMAIN t.rounds THEN Null
  ELSE
    LET r == t.rounds[t.roundIndex + 1]
        \* r.matches.findIndex((m) => !m.winner && m.a && m.b)
        open == {i \in DOMAIN r.matches :
                   /\ r.matches[i].winner = Null
                   /\ r.matches[i].a # Null
                   /\ r.matches[i].b # Null}
        idx == CHOOSE i \in open : \A j \in open : i <= j
    IN IF r.type = "three"
       THEN IF r.match.winner = Null
            THEN [round |-> t.roundIndex, special |-> "three"]
            ELSE IF r.final # Null /\ r.final.winner = Null
            THEN [round |-> t.roundIndex, special |-> "final"]
            ELSE Null
       ELSE IF r.type = "normal"
       THEN IF open # {}
            THEN [round |-> t.roundIndex, match |-> idx - 1]
            ELSE Null
       ELSE Null

\* Variant of roundWinners: the bye is not carried over.
roundWinnersNoBye(r) ==
  SelectSeq([i \in DOMAIN r.matches |-> r.matches[i].winner],
            LAMBDA w : w # Null)

\* Variant of roundWinners: round.matches.map((m) => m.a), the first slot of
\* each match goes on whoever won.
roundWinnersSlotA(r) ==
  LET ws == SelectSeq([i \in DOMAIN r.matches |-> r.matches[i].a],
                      LAMBDA w : w # Null)
  IN IF r.bye # Null THEN Append(ws, r.bye) ELSE ws

\* round.matches.map((m) => m.winner).filter(Boolean), plus the bye
roundWinners(r) ==
  LET ws == SelectSeq([i \in DOMAIN r.matches |-> r.matches[i].winner],
                      LAMBDA w : w # Null)
  IN IF r.bye # Null THEN Append(ws, r.bye) ELSE ws

\* ------------------------------------------------------------------------
\* fastForwardIfNeeded
\* ------------------------------------------------------------------------
\* Variant of the loop: if (round.entrants?.length <= 1) t.champion =
\* round.entrants[0], which is undefined for the done round of no entrant.
RECURSIVE fastForwardLoopCrownsEmpty(_)
fastForwardLoopCrownsEmpty(t0) ==
  IF t0.champion # Null THEN t0
  ELSE
    LET t == [t0 EXCEPT !.cursor = deriveCursor(t0)]
    IN IF (t.roundIndex + 1) \notin DOMAIN t.rounds THEN t
       ELSE IF t.cursor # Null THEN t
       ELSE
         LET r == t.rounds[t.roundIndex + 1]
             allDone == \A i \in DOMAIN r.matches : r.matches[i].winner # Null
             winners == roundWinners(r)
         IN IF r.type = "normal"
            THEN IF ~allDone THEN t
                 ELSE IF Len(winners) = 1
                 THEN [t EXCEPT !.champion = winners[1]]
                 ELSE fastForwardLoopCrownsEmpty(
                        [t EXCEPT !.roundIndex = @ + 1,
                                  !.rounds = Append(@, makeRound(winners))])
            ELSE IF r.type = "three" THEN t
            ELSE IF r.type = "done"
            THEN IF Len(r.entrants) = 1
                 THEN [t EXCEPT !.champion = r.entrants[1]]
                 ELSE [t EXCEPT !.champion = [undefined |-> TRUE]]
            ELSE t

\* Variant of the loop: the winners.length === 1 test is missing, the round
\* of the single survivor is appended and crowned as a done round.
RECURSIVE fastForwardLoopAlwaysAppends(_)
fastForwardLoopAlwaysAppends(t0) ==
  IF t0.champion # Null THEN t0
  ELSE
    LET t == [t0 EXCEPT !.cursor = deriveCursor(t0)]
    IN IF (t.roundIndex + 1) \notin DOMAIN t.rounds THEN t
       ELSE IF t.cursor # Null THEN t
       ELSE
         LET r == t.rounds[t.roundIndex + 1]
             allDone == \A i \in DOMAIN r.matches : r.matches[i].winner # Null
             winners == roundWinners(r)
         IN IF r.type = "normal"
            THEN IF ~allDone THEN t
                 ELSE fastForwardLoopAlwaysAppends(
                        [t EXCEPT !.roundIndex = @ + 1,
                                  !.rounds = Append(@, makeRound(winners))])
            ELSE IF r.type = "three" THEN t
            ELSE IF r.type = "done"
            THEN IF Len(r.entrants) = 1
                 THEN [t EXCEPT !.champion = r.entrants[1]]
                 ELSE t
            ELSE t

\* The while (!t.champion) loop, one iteration per unfolding.
RECURSIVE fastForwardLoop(_)
fastForwardLoop(t0) ==
  IF t0.champion # Null THEN t0
  ELSE
    LET t == [t0 EXCEPT !.cursor = deriveCursor(t0)]
    IN IF (t.roundIndex + 1) \notin DOMAIN t.rounds THEN t
       ELSE IF t.cursor # Null THEN t
       ELSE
         LET r == t.rounds[t.roundIndex + 1]
             allDone == \A i \in DOMAIN r.matches : r.matches[i].winner # Null
             winners == roundWinners(r)
         IN IF r.type = "normal"
            THEN IF ~allDone THEN t
                 ELSE IF Len(winners) = 1
                 THEN [t EXCEPT !.champion = winners[1]]
                 ELSE fastForwardLoop(
                        [t EXCEPT !.roundIndex = @ + 1,
                                  !.rounds = Append(@, makeRound(winners))])
            ELSE IF r.type = "three" THEN t
            ELSE IF r.type = "done"
            THEN IF Len(r.entrants) = 1
                 THEN [t EXCEPT !.champion = r.entrants[1]]
                 ELSE t
            ELSE t

fastForwardIfNeeded(t0) ==
  LET t == fastForwardLoop(deepClone(t0))
  IN [t EXCEPT !.cursor = deriveCursor(t)]

\* ------------------------------------------------------------------------
\* buildTournament
\* ------------------------------------------------------------------------
buildTournament(ts) ==
  LET t == [roundIndex |-> 0,
            rounds |-> <<makeRound(ts)>>,
            cursor |-> Null,
            champion |-> Null,
            history |-> <<>>]
  IN fastForwardIfNeeded([t EXCEPT !.cursor = deriveCursor(t)])

\* ------------------------------------------------------------------------
\* applyPick
\* ------------------------------------------------------------------------
\* Variant of pickedSlot: pickedSide === "a" ? m.b : m.a.
pickedSlotSwapped(m, pickedSide) == IF pickedSide = "a" THEN m.b ELSE m.a

\* Variant of pickedSlot: an empty slot falls back to the other one.
pickedSlotFallback(m, pickedSide) ==
  IF pickedSide = "a" THEN (IF m.a # Null THEN m.a ELSE m.b)
  ELSE (IF m.b # Null THEN m.b ELSE m.a)

\* pickedSide === "a" ? m.a : m.b
pickedSlot(m, pickedSide) == IF pickedSide = "a" THEN m.a ELSE m.b

\* Variant of pickQualifier: round.final = { a: winner, b: round.top, ... }.
pickQualifierSwapped(t, pickedSide) ==
  LET ri == t.roundIndex + 1
      r == t.rounds[ri]
      winner == pickedSlot(r.match, pickedSide)
      t1 == [t EXCEPT
               !.rounds[ri].match.winner = winner,
               !.rounds[ri].final = [a |-> winner, b |-> r.top, winner |-> Null],
               !.history = Append(@, [round |-> t.roundIndex,
                                      stage |-> "three",
                                      winnerId |-> winner.id])]
  IN IF winner = Null THEN t
     ELSE [t1 EXCEPT !.cursor = deriveCursor(t1)]

\* if (cur.special === "three") { ... }: t is the clone being edited
pickQualifier(t, pickedSide) ==
  LET ri == t.roundIndex + 1
      r == t.rounds[ri]
      winner == pickedSlot(r.match, pickedSide)
      t1 == [t EXCEPT
               !.rounds[ri].match.winner = winner,
               !.rounds[ri].final = [a |-> r.top, b |-> winner, winner |-> Null],
               !.history = Append(@, [round |-> t.roundIndex,
                                      stage |-> "three",
                                      winnerId |-> winner.id])]
  IN IF winner = Null THEN t
     ELSE [t1 EXCEPT !.cursor = deriveCursor(t1)]

\* Variant of pickFinal: t.champion = winner is missing.
pickFinalNoChampion(t, pickedSide) ==
  LET ri == t.roundIndex + 1
      r == t.rounds[ri]
      winner == pickedSlot(r.final, pickedSide)
  IN IF winner = Null THEN t
     ELSE [t EXCEPT
             !.rounds[ri].final.winner = winner,
             !.history = Append(@, [round |-> t.roundIndex,
                                    stage |-> "final",
                                    winnerId |-> winner.id]),
             !.cursor = Null]

\* Variant of pickFinal: the champion is the top entrant whatever was picked.
pickFinalTopWins(t, pickedSide) ==
  LET ri == t.roundIndex + 1
      r == t.rounds[ri]
      winner == pickedSlot(r.final, pickedSide)
  IN IF winner = Null THEN t
     ELSE [t EXCEPT
             !.rounds[ri].final.winner = winner,
             !.history = Append(@, [round |-> t.roundIndex,
                                    stage |-> "final",
                                    winnerId |-> winner.id]),
             !.champion = r.top,
             !.cursor = Null]

\* Variant of pickFinal: t.history.push(...) is missing.
pickFinalNoHistory(t, pickedSide) ==
  LET ri == t.roundIndex + 1
      r == t.rounds[ri]
      winner == pickedSlot(r.final, pickedSide)
  IN IF winner = Null THEN t
     ELSE [t EXCEPT
             !.rounds[ri].final.winner = winner,
             !.champion = winner,
             !.cursor = Null]

\* Variant of pickFinal: t.cursor = null is missing.
pickFinalKeepsCursor(t, pickedSide) ==
  LET ri == t.roundIndex + 1
      r == t.rounds[ri]
      winner == pickedSlot(r.final, pickedSide)
  IN IF winner = Null THEN t
     ELSE [t EXCEPT
             !.rounds[ri].final.winner = winner,
             !.history = Append(@, [round |-> t.roundIndex,
                                    stage |-> "final",
                                    winnerId |-> winner.id]),
             !.champion = winner]

\* if (cur.special === "final") { ... }
pickFinal(t, pickedSide) ==
  LET ri == t.roundIndex + 1
      r == t.rounds[ri]
      winner == pickedSlot(r.final, pickedSide)
  IN IF winner = Null THEN t
     ELSE [t EXCEPT
             !.rounds[ri].final.winner = winner,
             !.history = Append(@, [round |-> t.roundIndex,
                                    stage |-> "final",
                                    winnerId |-> winner.id]),
             !.champion = winner,
             !.cursor = Null]

\* Variant of pickMatch: const round = t.rounds[0], the first round is
\* edited whatever the active round is.
pickMatchFirstRound(t, pickedSide) ==
  LET ri == 1
      cur == t.cursor
      mi == cur.match + 1
      winner == pickedSlot(t.rounds[ri].matches[mi], pickedSide)
      t1 == [t EXCEPT
               !.rounds[ri].matches[mi].winner = winner,
               !.history = Append(@, [round |-> t.roundIndex,
                                      match |-> cur.match,
                                      winnerId |-> winner.id])]
      r1 == t1.rounds[ri]
      allDone == \A i \in DOMAIN r1.matches : r1.matches[i].winner # Null
      winners == roundWinners(r1)
      t2 == [t1 EXCEPT !.roundIndex = @ + 1,
                       !.rounds = Append(@, makeRound(winners))]
  IN IF winner = Null THEN t
     ELSE IF ~allDone THEN [t1 EXCEPT !.cursor = deriveCursor(t1)]
     ELSE IF Len(winners) = 1
     THEN [t1 EXCEPT !.champion = winners[1], !.cursor = Null]
     ELSE fastForwardIfNeeded([t2 EXCEPT !.cursor = deriveCursor(t2)])

\* Variant of pickMatch: t.roundIndex += 1 is missing.
pickMatchKeepsRoundIndex(t, pickedSide) ==
  LET ri == t.roundIndex + 1
      cur == t.cursor
      mi == cur.match + 1
      winner == pickedSlot(t.rounds[ri].matches[mi], pickedSide)
      t1 == [t EXCEPT
               !.rounds[ri].matches[mi].winner = winner,
               !.history = Append(@, [round |-> t.roundIndex,
                                      match |-> cur.match,
                                      winnerId |-> winner.id])]
      r1 == t1.rounds[ri]
      allDone == \A i \in DOMAIN r1.matches : r1.matches[i].winner # Null
      winners == roundWinners(r1)
      t2 == [t1 EXCEPT !.rounds = Append(@, makeRound(winners))]
  IN IF winner = Null THEN t
     ELSE IF ~allDone THEN [t1 EXCEPT !.cursor = deriveCursor(t1)]
     ELSE IF Len(winners) = 1
     THEN [t1 EXCEPT !.champion = winners[1], !.cursor = Null]
     ELSE fastForwardIfNeeded([t2 EXCEPT !.cursor = deriveCursor(t2)])

\* Variant of pickMatch: the winners.length === 1 branch is missing, the
\* round of the single survivor is appended and left to fastForwardIfNeeded.
pickMatchAlwaysAppends(t, pickedSide) ==
  LET ri == t.roundIndex + 1
      cur == t.cursor
      mi == cur.match + 1
      winner == pickedSlot(t.rounds[ri].matches[mi], pickedSide)
      t1 == [t EXCEPT
               !.rounds[ri].matches[mi].winner = winner,
               !.history = Append(@, [round |-> t.roundIndex,
                                      match |-> cur.match,
                                      winnerId |-> winner.id])]
      r1 == t1.rounds[ri]
      allDone == \A i \in DOMAIN r1.matches : r1.matches[i].winner # Null
      winners == roundWinners(r1)
      t2 == [t1 EXCEPT !.roundIndex = @ + 1,
                       !.rounds = Append(@, makeRound(winners))]
  IN IF winner = Null THEN t
     ELSE IF ~allDone THEN [t1 EXCEPT !.cursor = deriveCursor(t1)]
     ELSE fastForwardIfNeeded([t2 EXCEPT !.cursor = deriveCursor(t2)])

\* The rest of applyPick: a pick in a normal round.
pickMatch(t, pickedSide) ==
  LET ri == t.roundIndex + 1
      cur == t.cursor
      mi == cur.match + 1
      winner == pickedSlot(t.rounds[ri].matches[mi], pickedSide)
      t1 == [t EXCEPT
               !.rounds[ri].matches[mi].winner = winner,
               !.history = Append(@, [round |-> t.roundIndex,
                                      match |-> cur.match,
                                      winnerId |-> winner.id])]
      r1 == t1.rounds[ri]
      allDone == \A i \in DOMAIN r1.matches : r1.matches[i].winner # Null
      winners == roundWinners(r1)
      t2 == [t1 EXCEPT !.roundIndex = @ + 1,
                       !.rounds = Append(@, makeRound(winners))]
  IN IF winner = Null THEN t
     ELSE IF ~allDone THEN [t1 EXCEPT !.cursor = deriveCursor(t1)]
     ELSE IF Len(winners) = 1
     THEN [t1 EXCEPT !.champion = winners[1], !.cursor = Null]
     ELSE fastForwardIfNeeded([t2 EXCEPT !.cursor = deriveCursor(t2)])

\* The first part of a pick in a normal round, up to the allDone test: the
\* winner is recorded and the cursor recomputed, the round is not completed.
\* For the last match of a round this is a snapshot without champion whose
\* active round has every match decided.
recordWinner(t, pickedSide) ==
  LET ri == t.roundIndex + 1
      cur == t.cursor
      mi == cur.match + 1
      winner == pickedSlot(t.rounds[ri].matches[mi], pickedSide)
      t1 == [t EXCEPT
               !.rounds[ri].matches[mi].winner = winner,
               !.history = Append(@, [round |-> t.roundIndex,
                                      match |-> cur.match,
                                      winnerId |-> winner.id])]
  IN IF winner = Null THEN t
     ELSE [t1 EXCEPT !.cursor = deriveCursor(t1)]

applyPick(t0, pickedSide) ==
  LET t == deepClone(t0)
      cur == t.cursor
  IN IF cur = Null THEN t
     ELSE IF (t.roundIndex + 1) \notin DOMAIN t.rounds THEN t
     ELSE IF "special" \in DOMAIN cur /\ cur.special = "three"
     THEN pickQualifier(t, pickedSide)
     ELSE IF "special" \in DOMAIN cur /\ cur.special = "final"
     THEN pickFinal(t, pickedSide)
     ELSE pickMatch(t, pickedSide)

\* ------------------------------------------------------------------------
\* getTotalDone
\* ------------------------------------------------------------------------
\* Variant of roundTotalDone: a three round counts the matches it holds, so
\* its final counts only once it exists.
roundTotalDoneExistingOnly(r) ==
  IF r.type = "normal"
  THEN [total |-> Len(r.matches),
        done |-> Cardinality({k \in DOMAIN r.matches :
                                 r.matches[k].winner # Null})]
  ELSE IF r.type = "three"
  THEN [total |-> 1 + (IF r.final # Null THEN 1 ELSE 0),
        done |-> (IF r.match # Null /\ r.match.winner # Null THEN 1 ELSE 0)
               + (IF r.final # Null /\ r.final.winner # Null THEN 1 ELSE 0)]
  ELSE [total |-> 0, done |-> 0]

\* Variant of roundTotalDone: the final of a three round is not counted as
\* done.
roundTotalDoneNoFinal(r) ==
  IF r.type = "normal"
  THEN [total |-> Len(r.matches),
        done |-> Cardinality({k \in DOMAIN r.matches :
                                 r.matches[k].winner # Null})]
  ELSE IF r.type = "three"
  THEN [total |-> 2,
        done |-> (IF r.match # Null /\ r.match.winner # Null THEN 1 ELSE 0)]
  ELSE [total |-> 0, done |-> 0]

\* Variant of roundTotalDone: the bye of a normal round is counted as a slot
\* to decide.
roundTotalDoneCountsBye(r) ==
  IF r.type = "normal"
  THEN [total |-> Len(r.matches) + (IF r.bye # Null THEN 1 ELSE 0),
        done |-> Cardinality({k \in DOMAIN r.matches :
                                 r.matches[k].winner # Null})]
  ELSE IF r.type = "three"
  THEN [total |-> 2,
        done |-> (IF r.match # Null /\ r.match.winner # Null THEN 1 ELSE 0)
               + (IF r.final # Null /\ r.final.winner # Null THEN 1 ELSE 0)]
  ELSE [total |-> 0, done |-> 0]

\* One iteration of the loop over tournament.rounds: what round r adds to
\* total and to done.
roundTotalDone(r) ==
  IF r.type = "normal"
  THEN [total |-> Len(r.matches),
        done |-> Cardinality({k \in DOMAIN r.matches :
                                 r.matches[k].winner # Null})]
  ELSE IF r.type = "three"
  THEN [total |-> 2,
        done |-> (IF r.match # Null /\ r.match.winner # Null THEN 1 ELSE 0)
               + (IF r.final # Null /\ r.final.winner # Null THEN 1 ELSE 0)]
  ELSE [total |-> 0, done |-> 0]

RECURSIVE sumTotalDone(_, _)
sumTotalDone(rounds, n) ==
  IF n = 0
  THEN [total |-> 0, done |-> 0]
  ELSE LET acc == sumTotalDone(rounds, n - 1)
           r == roundTotalDone(rounds[n])
       IN [total |-> acc.total + r.total, done |-> acc.done + r.done]

getTotalDone(t) ==
  IF t = Null
  THEN [total |-> 0, done |-> 0]
  ELSE sumTotalDone(t.rounds, Len(t.rounds))

\* ------------------------------------------------------------------------
\* normalizePair: the more popular entrant is shown on top
\* ------------------------------------------------------------------------
normalizePair(a, b) ==
  IF a = Null \/ b = Null
  THEN [top |-> a, bottom |-> b, swapped |-> FALSE]
  ELSE IF Popularity(a) >= Popularity(b)
  THEN [top |-> a, bottom |-> b, swapped |-> FALSE]
  ELSE [top |-> b, bottom |-> a, swapped |-> TRUE]

\* ------------------------------------------------------------------------
\* The tournament as the host drives it
\* ------------------------------------------------------------------------
\* A tournament has just been built from a loaded entrant list.
Init ==
  /\ \E n \in 0..MaxEntrants : \E pops \in [1..n -> 0..MaxPopularity] :
       tracks = trackList(pops)
  /\ tournament = buildTournament(tracks)
  /\ entrants = <<>>
  /\ round = Null
  /\ HostIdle

\* setTournament((t) => (t ? applyPick(t, side) : t))
Pick(side) ==
  /\ tournament' = (IF tournament # Null THEN applyPick(tournament, side)
                    ELSE tournament)
  /\ UNCHANGED <<tracks, entrants, round, hostVars>>

\* "Continue": setTournament((t) => (t ? fastForwardIfNeeded(t) : t))
Continue ==
  /\ tournament' = (IF tournament # Null THEN fastForwardIfNeeded(tournament)
                    ELSE tournament)
  /\ UNCHANGED <<tracks, entrants, round, hostVars>>

Next ==
  \/ \E side \in Sides : Pick(side)
  \/ Continue

Spec == Init /\ [][Next]_vars

\* "Repeatedly calling applyPick": as long as a decision is pending, picks
\* keep being applied.  This is weak fairness of the pick, with "a pick
\* is enabled" written out as "the cursor is not null".
PicksKeepComing ==
  \/ []<>(tournament.cursor = Null)
  \/ []<><<\E side \in Sides : Pick(side)>>_vars

FairSpec == Spec /\ PicksKeepComing

\* ------------------------------------------------------------------------
\* A session restored from storage: the saved tournament is installed as it
\* is read (setTournament(saved.tournament)), then picks are applied to it.
\* Storage may hold a tournament as buildTournament made it, or one in which
\* a slot of the match under the cursor is absent.
\* ------------------------------------------------------------------------
\* The match the stored cursor of t points at (t.cursor is not null).
cursorMatch(t) ==
  LET r == t.rounds[t.roundIndex + 1]
      cur == t.cursor
  IN IF "special" \in DOMAIN cur /\ cur.special = "three" THEN r.match
     ELSE IF "special" \in DOMAIN cur /\ cur.special = "final" THEN r.final
     ELSE r.matches[cur.match + 1]

\* t with slot `side` of the match under its cursor absent.
withEmptySlot(t, side) ==
  LET ri == t.roundIndex + 1
      cur == t.cursor
  IN IF cur = Null THEN t
     ELSE IF "special" \in DOMAIN cur
     THEN IF side = "a" THEN [t EXCEPT !.rounds[ri].match.a = Null]
          ELSE [t EXCEPT !.rounds[ri].match.b = Null]
     ELSE IF side = "a"
          THEN [t EXCEPT !.rounds[ri].matches[cur.match + 1].a = Null]
          ELSE [t EXCEPT !.rounds[ri].matches[cur.match + 1].b = Null]

SavedTournaments(ts) ==
  {buildTournament(ts)} \cup {withEmptySlot(buildTournament(ts), side) : side \in Sides}

InitRestored ==
  /\ \E n \in 0..MaxEntrants : \E pops \in [1..n -> 0..MaxPopularity] :
       tracks = trackList(pops)
  /\ tournament \in SavedTournaments(tracks)
  /\ entrants = <<>>
  /\ round = Null
  /\ HostIdle

NextRestored == \E side \in Sides : Pick(side)

SpecRestored == InitRestored /\ [][NextRestored]_vars

\* ------------------------------------------------------------------------
\* fastForwardIfNeeded on snapshots that are not settled: besides the picks,
\* a winner may be recorded without completing the round, and "Continue"
\* then hands that snapshot to fastForwardIfNeeded.
\* ------------------------------------------------------------------------
RecordWinner(side) ==
  /\ tournament.cursor # Null
  /\ "match" \in DOMAIN tournament.cursor
  /\ tournament' = recordWinner(deepClone(tournament), side)
  /\ UNCHANGED <<tracks, entrants, round, hostVars>>

NextSettle ==
  \/ \E side \in Sides : Pick(side)
  \/ \E side \in Sides : RecordWinner(side)
  \/ Continue

SpecSettle == Init /\ [][NextSettle]_vars

\* ------------------------------------------------------------------------
\* applyPick used without serialization: a caller reads the current
\* tournament and computes applyPick of it (Compute), and stores the result
\* as the current tournament later (Write).  A second caller may compute from
\* the same snapshot before the first one has stored its result.
\* ------------------------------------------------------------------------
InitRace ==
  /\ \E n \in 0..MaxRaced : \E pops \in [1..n -> 0..MaxPopularity] :
       tracks = trackList(pops)
  /\ tournament = buildTournament(tracks)
  /\ entrants = <<>>
  /\ round = Null
  /\ HostIdle

Compute(side) ==
  /\ tournament.cursor # Null
  /\ Len(inflight) < 2
  /\ inflight # <<>> => inflight[1].from = tournament
  /\ inflight' = Append(inflight, [from |-> tournament,
                                   result |-> applyPick(tournament, side)])
  /\ UNCHANGED <<tracks, tournament, entrants, round, isAdvancing, timers, loading>>

Write ==
  /\ inflight # <<>>
  /\ tournament' = Head(inflight).result
  /\ inflight' = Tail(inflight)
  /\ UNCHANGED <<tracks, entrants, round, isAdvancing, timers, loading>>

NextRace ==
  \/ \E side \in Sides : Compute(side)
  \/ Write

SpecRace == InitRace /\ [][NextRace]_vars

\* ------------------------------------------------------------------------
\* The host: App's tournament state with every place that sets it.  A tap
\* on a card goes through pickWithFeedback, which schedules the pick 260 ms
\* later; a playlist load sets a new tournament when its fetch completes;
\* reset clears it.  After each update the "clear selection on cursor
\* change" effect runs.  The "Continue" button is rendered only for a
\* tournament without champion and without playable match, which none of
\* these updates produces, so it has no action here.
\* ------------------------------------------------------------------------
\* currentStage?.a && currentStage?.b
currentStageReady(t) ==
  /\ t # Null
  /\ t.champion = Null
  /\ (t.roundIndex + 1) \in DOMAIN t.rounds
  /\ t.cursor # Null
  /\ cursorMatch(t) # Null
  /\ cursorMatch(t).a # Null
  /\ cursorMatch(t).b # Null

\* The effect's dependencies [tournament?.roundIndex,
\* tournament?.cursor?.match, tournament?.cursor?.special]; undefined is
\* written -1, resp. "undefined".
cursorDeps(t) ==
  IF t = Null THEN <<-1, -1, "undefined">>
  ELSE IF t.cursor = Null THEN <<t.roundIndex, -1, "undefined">>
  ELSE IF "special" \in DOMAIN t.cursor
       THEN <<t.roundIndex, -1, t.cursor.special>>
       ELSE <<t.roundIndex, t.cursor.match, "undefined">>

\* isAdvancing after an update from t to next: the effect sets it to false
\* when a dependency changed.
afterEffect(t, next, advancing) ==
  IF cursorDeps(next) # cursorDeps(t) THEN FALSE ELSE advancing

\* The playlists a fetch may return: n tracks; what the host does with them
\* does not look at their popularity.
playlist(n) == trackList([i \in 1..n |-> 0])

InitHost ==
  /\ tracks = <<>>
  /\ tournament = Null
  /\ entrants = <<>>
  /\ round = Null
  /\ HostIdle

\* pickWithFeedback(side)
Tap(side) ==
  /\ currentStageReady(tournament)
  /\ ~isAdvancing
  /\ Len(timers) < MaxTimers
  /\ isAdvancing' = TRUE
  /\ timers' = Append(timers, [side |-> side, shown |-> tournament])
  /\ UNCHANGED <<tracks, tournament, entrants, round, loading, inflight>>

\* The setTimeout callback of the oldest pending tap.  It uses the side it
\* was created with and the tournament as it is now; the tournament shown
\* at the tap is kept in timers for the record only, the callback does not
\* have it.
TimerFires ==
  /\ timers # <<>>
  /\ tournament' = (IF tournament # Null
                    THEN applyPick(tournament, Head(timers).side)
                    ELSE tournament)
  /\ timers' = Tail(timers)
  /\ isAdvancing' = FALSE
  /\ UNCHANGED <<tracks, entrants, round, loading, inflight>>

\* handleLoadPlaylist up to the await: the button is disabled while loading.
LoadStarts ==
  /\ ~loading
  /\ loading' = TRUE
  /\ UNCHANGED <<tracks, tournament, entrants, round, isAdvancing, timers, inflight>>

\* handleLoadPlaylist after the await, with a non-empty track list.
LoadCompletes ==
  /\ loading
  /\ \E n \in 1..MaxLoaded :
       /\ tracks' = playlist(n)
       /\ tournament' = buildTournament(playlist(n))
  /\ loading' = FALSE
  /\ isAdvancing' = afterEffect(tournament, tournament', isAdvancing)
  /\ UNCHANGED <<entrants, round, timers, inflight>>

\* handleLoadPlaylist after the await, failing or with no track.
LoadFails ==
  /\ loading
  /\ loading' = FALSE
  /\ UNCHANGED <<tracks, tournament, entrants, round, isAdvancing, timers, inflight>>

\* handleResetStorage -> resetAll
Reset ==
  /\ tracks' = <<>>
  /\ tournament' = Null
  /\ isAdvancing' = FALSE
  /\ UNCHANGED <<entrants, round, timers, loading, inflight>>

NextHost ==
  \/ \E side \in Sides : Tap(side)
  \/ TimerFires
  \/ LoadStarts
  \/ LoadCompletes
  \/ LoadFails
  \/ Reset

SpecHost == InitHost /\ [][NextHost]_vars

\* ------------------------------------------------------------------------
\* makeRound on its own: any argument list, one call
\* ------------------------------------------------------------------------
InitRound ==
  /\ tracks = <<>>
  /\ tournament = Null
  /\ \E n \in 0..MaxEntrants : \E kinds \in [1..n -> (-2)..MaxPopularity] :
       entrants = survivorList(kinds)
  /\ round = Null
  /\ HostIdle

BuildRound ==
  /\ round = Null
  /\ round' = makeRound(entrants)
  /\ UNCHANGED <<tracks, tournament, entrants, hostVars>>

NextRound == BuildRound

SpecRound == InitRound /\ [][NextRound]_vars

\* ------------------------------------------------------------------------
\* makeRound on a clean entrant list, to be compared with makeRound on the
\* reorderings of that list
\* ------------------------------------------------------------------------
InitReorder ==
  /\ tracks = <<>>
  /\ tournament = Null
  /\ \E n \in 0..MaxReordered : \E pops \in [1..n -> 0..MaxPopularity] :
       entrants = trackList(pops)
  /\ round = Null
  /\ HostIdle

NextReorder == BuildRound

SpecReorder == InitReorder /\ [][NextReorder]_vars

\* ========================================================================
\* Properties
\* ========================================================================
\* The present entries of the argument of makeRound.
AliveSet == {entrants[i] : i \in {j \in DOMAIN entrants : entrants[j] # Null}}

\* x is ranked strictly ahead of y: more popular, or equally popular and
\* earlier in the argument list (an entrant's id is its list position).
Ahead(x, y) ==
  \/ Popularity(x) > Popularity(y)
  \/ Popularity(x) = Popularity(y) /\ x.id < y.id

\* The number of entrants of S ranked ahead of e (0 for the strongest).
RankIn(e, S) == Cardinality({x \in S : Ahead(x, e)})

\* The entrants occupying a match slot of a normal round.
SlotsOf(r) == UNION {{r.matches[i].a, r.matches[i].b} : i \in DOMAIN r.matches}

\* The pairing pool of a built normal round: the present entrants but the bye.
PoolSet == AliveSet \ {round.bye}

\* C5: makeRound on N >= 2, N # 3 present survivors builds a normal round;
\* for odd N its bye is the first entrant of the ranking (the most popular,
\* the earliest of them on a tie) and the matches pair exactly the other
\* N - 1 entrants; for even N there is no bye and the matches pair all N.
C5_ByeRule ==
  LET N == Cardinality(AliveSet)
  IN (round # Null /\ N >= 2 /\ N # 3) =>
       /\ round.type = "normal"
       /\ IF N % 2 = 1
          THEN /\ round.bye \in AliveSet
               /\ RankIn(round.bye, AliveSet) = 0
               /\ SlotsOf(round) = AliveSet \ {round.bye}
               /\ 2 * Len(round.matches) = N - 1
          ELSE /\ round.bye = Null
               /\ SlotsOf(round) = AliveSet
               /\ 2 * Len(round.matches) = N

\* Five survivors, two of them tied for the highest popularity: a round
\* with a bye has been built.
C5_Witness ==
  /\ round # Null
  /\ Cardinality(AliveSet) = 5
  /\ round.type = "normal"
  /\ round.bye # Null
  /\ \E x \in AliveSet : x # round.bye /\ Popularity(x) = Popularity(round.bye)

\* C6: in a built normal round with pool of size len, there are len / 2
\* matches, match i (0-based) has the i-th strongest of the pool in slot a
\* and the i-th weakest in slot b, and no match has a winner.
C6_FoldSeeding ==
  (round # Null /\ round.type = "normal") =>
    LET len == Cardinality(PoolSet)
    IN /\ 2 * Len(round.matches) = len
       /\ \A k \in DOMAIN round.matches :
            LET m == round.matches[k]
            IN /\ m.a \in PoolSet
               /\ m.b \in PoolSet
               /\ RankIn(m.a, PoolSet) = k - 1
               /\ RankIn(m.b, PoolSet) = len - k
               /\ m.winner = Null

\* Four survivors given weakest first, with popularities 0, 1, 1, 2: the
\* last meets the first, and the two tied ones meet in input order.
C6_Witness ==
  /\ round # Null
  /\ Len(entrants) = 4
  /\ \A i \in 1..4 : entrants[i] # Null
  /\ Popularity(entrants[1]) = 0 /\ Popularity(entrants[2]) = 1
  /\ Popularity(entrants[3]) = 1 /\ Popularity(entrants[4]) = 2
  /\ round.type = "normal"
  /\ round.bye = Null
  /\ Len(round.matches) = 2
  /\ round.matches[1].a = entrants[4] /\ round.matches[1].b = entrants[1]
  /\ round.matches[2].a = entrants[2] /\ round.matches[2].b = entrants[3]

\* C7: makeRound on exactly 3 present survivors builds a three round: top
\* is the first of the ranking, the qualifier pairs the second (a) with the
\* third (b) and has no winner, and there is no final.
C7_ThreeRound ==
  (round # Null /\ Cardinality(AliveSet) = 3) =>
    /\ round.type = "three"
    /\ round.top \in AliveSet /\ RankIn(round.top, AliveSet) = 0
    /\ round.match.a \in AliveSet /\ RankIn(round.match.a, AliveSet) = 1
    /\ round.match.b \in AliveSet /\ RankIn(round.match.b, AliveSet) = 2
    /\ round.match.winner = Null
    /\ round.final = Null

\* Three survivors given weakest first: the last one is top.
C7_Witness ==
  /\ round # Null
  /\ Len(entrants) = 3
  /\ \A i \in 1..3 : entrants[i] # Null /\ Popularity(entrants[i]) = i - 1
  /\ round.type = "three"
  /\ round.top = entrants[3]
  /\ round.match.a = entrants[2]
  /\ round.match.b = entrants[1]
  /\ round.final = Null


\* The entrants of the list the tournament was built from.
TrackSet == {tracks[i] : i \in DOMAIN tracks}

\* The three rounds of the tournament.
ThreeRounds ==
  {i \in DOMAIN tournament.rounds : tournament.rounds[i].type = "three"}

\* C1: from a tournament built from a non-empty list, picks applied one
\* after the other (whatever the sides) lead to a tournament with a
\* champion, and the champion is an entrant of the list.
C1_Terminates ==
  (Len(tracks) >= 1) ~>
     (tournament.champion # Null /\ tournament.champion \in TrackSet)

\* A tournament of five entrants has been played to its champion.
C1_Witness ==
  /\ Len(tracks) = 5
  /\ tournament.champion \in TrackSet
  /\ Len(tournament.history) >= 4

\* C2: in a tournament built from a non-empty list, the champion is set
\* exactly when no decision is pending (the cursor is null).
C2_ChampionIffComplete ==
  (Len(tracks) >= 1) =>
     (tournament.champion # Null <=> tournament.cursor = Null)

\* A champion decided by picks, and the cursor is null.
C2_Witness ==
  /\ Len(tracks) >= 4
  /\ tournament.champion # Null
  /\ tournament.cursor = Null
  /\ tournament.history # <<>>

\* C3: once the tournament has a champion, no pick and no fast-forward
\* changes champion, rounds, roundIndex, cursor or history.
C3_ChampionTerminal ==
  [][tournament.champion # Null => tournament' = tournament]_vars

\* A tournament with a champion, reached by picks, on which either pick
\* and the fast-forward have no effect.
C3_Witness ==
  /\ tournament.champion # Null
  /\ tournament.history # <<>>
  /\ \A side \in Sides : applyPick(tournament, side) = tournament
  /\ fastForwardIfNeeded(tournament) = tournament

\* The pick of `side` is rejected: no cursor, or the named slot of the
\* match under the cursor is empty.
Rejected(side) ==
  \/ tournament.cursor = Null
  \/ side = "a" /\ cursorMatch(tournament).a = Null
  \/ side = "b" /\ cursorMatch(tournament).b = Null

\* C4: a rejected pick returns a tournament equal to its input in every
\* field.
C4_RejectedPickIsNoOp ==
  \A side \in Sides :
     Rejected(side) => applyPick(tournament, side) = tournament

\* A pending decision whose slot b is empty (pick b is rejected, pick a is
\* not).
C4_Witness ==
  /\ tournament.cursor # Null
  /\ Rejected("b")
  /\ ~Rejected("a")
  /\ applyPick(tournament, "b") = tournament
  /\ applyPick(tournament, "a") # tournament

\* C8: every three round has a final exactly when its qualifier has a
\* winner, and then the final pairs top (a) with that winner (b).
C8_FinalIffQualifierDecided ==
  \A i \in ThreeRounds :
     LET r == tournament.rounds[i]
     IN /\ r.final # Null <=> r.match.winner # Null
        /\ r.final # Null => r.final.a = r.top /\ r.final.b = r.match.winner

\* A three round whose qualifier was won by its slot b.
C8_Witness ==
  \E i \in ThreeRounds :
     LET r == tournament.rounds[i]
     IN r.final # Null /\ r.match.winner = r.match.b

\* The cursor is at stage s of a three round.
AtStage(s) ==
  /\ tournament.cursor # Null
  /\ "special" \in DOMAIN tournament.cursor
  /\ tournament.cursor.special = s

\* C9: the accepted qualifier pick leaves champion unset and moves the
\* cursor to the final; the next accepted pick sets final.winner to the
\* picked slot, makes it the champion and clears the cursor.
C9_QualifierThenFinal ==
  [][ /\ AtStage("three") =>
           /\ tournament'.champion = Null
           /\ tournament'.cursor =
                 [round |-> tournament.roundIndex, special |-> "final"]
      /\ AtStage("final") =>
           LET f == tournament'.rounds[tournament.roundIndex + 1].final
           IN /\ f.winner \in {f.a, f.b}
              /\ tournament'.champion = f.winner
              /\ tournament'.cursor = Null
              /\ Len(tournament'.history) = Len(tournament.history) + 1
    ]_vars

\* A three round played out: the qualifier winner beat top in the final.
C9_Witness ==
  \E i \in ThreeRounds :
     LET r == tournament.rounds[i]
     IN /\ r.final # Null
        /\ r.final.winner = r.match.winner
        /\ tournament.champion = r.final.winner
        /\ r.final.winner # r.top

\* C10: a tournament built from one entrant is a single done round holding
\* that entrant and no match, with the entrant as champion, no cursor and
\* an empty history.
C10_SingleEntrant ==
  (Len(tracks) = 1) =>
     /\ tournament.roundIndex = 0
     /\ Len(tournament.rounds) = 1
     /\ tournament.rounds[1].type = "done"
     /\ tournament.rounds[1].entrants = tracks
     /\ tournament.rounds[1].matches = <<>>
     /\ tournament.champion = tracks[1]
     /\ tournament.cursor = Null
     /\ tournament.history = <<>>

\* A tournament built from one entrant, who is the champion.
C10_Witness ==
  /\ Len(tracks) = 1
  /\ tournament = buildTournament(tracks)
  /\ tournament.champion = tracks[1]

\* C11: a tournament built from no entrant is one done round with an empty
\* entrant list, without champion and without cursor, and no pick and no
\* fast-forward ever changes that.
C11_NoEntrantIdle ==
  (Len(tracks) = 0) =>
     /\ tournament.roundIndex = 0
     /\ Len(tournament.rounds) = 1
     /\ tournament.rounds[1].type = "done"
     /\ tournament.rounds[1].entrants = <<>>
     /\ tournament.champion = Null
     /\ tournament.cursor = Null
     /\ \A side \in Sides : applyPick(tournament, side) = tournament
     /\ fastForwardIfNeeded(tournament) = tournament

\* The tournament of no entrant.
C11_Witness ==
  /\ Len(tracks) = 0
  /\ tournament = buildTournament(<<>>)
  /\ tournament.rounds[1].type = "done"
  /\ tournament.champion = Null

\* C12: the number of decisions applied never exceeds (n - 1) plus the
\* number of three rounds, n >= 1 being the number of entrants.
C12_DecisionBound ==
  (Len(tracks) >= 1) =>
     Len(tournament.history) <= (Len(tracks) - 1) + Cardinality(ThreeRounds)

\* A finished tournament of five entrants that went through a three round.
C12_Witness ==
  /\ Len(tracks) = 5
  /\ ThreeRounds # {}
  /\ tournament.champion # Null
  /\ Len(tournament.history) = 4

\* The entrants of round i (1-based) as a set.
RoundEntrants(i) ==
  {tournament.rounds[i].entrants[k] : k \in DOMAIN tournament.rounds[i].entrants}

\* The match winners of round i together with its bye.
Survivors(i) ==
  LET r == tournament.rounds[i]
  IN {r.matches[k].winner : k \in DOMAIN r.matches}
       \cup (IF r.bye # Null THEN {r.bye} ELSE {})

\* C13: the first round holds exactly the entrants of the list; a round that
\* has a successor has all its matches decided, and the successor holds
\* exactly its match winners and its bye, one entrant per match plus one
\* for the bye.
C13_RoundsFromSurvivors ==
  /\ RoundEntrants(1) = TrackSet
  /\ Len(tournament.rounds[1].entrants) = Len(tracks)
  /\ \A i \in DOMAIN tournament.rounds :
       (i + 1) \in DOMAIN tournament.rounds =>
          LET r == tournament.rounds[i]
              next == tournament.rounds[i + 1]
          IN /\ r.type = "normal"
             /\ \A k \in DOMAIN r.matches : r.matches[k].winner # Null
             /\ RoundEntrants(i + 1) = Survivors(i)
             /\ Len(next.entrants) =
                  Len(r.matches) + (IF r.bye # Null THEN 1 ELSE 0)

\* A second round made of two match winners and the bye of the first.
C13_Witness ==
  /\ Len(tournament.rounds) = 2
  /\ tournament.rounds[1].bye # Null
  /\ tournament.rounds[1].bye \in RoundEntrants(2)
  /\ Len(tournament.rounds[2].entrants) = 3

\* C14: no pick and no fast-forward shortens rounds, and every round below
\* the active one is the same after the step as before.
C14_RoundsAppendOnly ==
  [][ /\ Len(tournament'.rounds) >= Len(tournament.rounds)
      /\ \A i \in 1..tournament.roundIndex :
           tournament'.rounds[i] = tournament.rounds[i]
    ]_vars

\* A pick has been applied in the second round, and the first round is
\* still as it was when it was completed.
C14_Witness ==
  /\ Len(tournament.rounds) = 2
  /\ tournament.roundIndex = 1
  /\ Len(tournament.history) > Len(tournament.rounds[1].matches)
  /\ \A k \in DOMAIN tournament.rounds[1].matches :
       tournament.rounds[1].matches[k].winner # Null

\* The history entry an accepted pick at the current cursor must append: the
\* active round index, the cursor's match index or stage, and the id of the
\* winner now recorded in that match.
ExpectedEntry ==
  LET cur == tournament.cursor
      r == tournament'.rounds[tournament.roundIndex + 1]
      m == IF "special" \in DOMAIN cur
           THEN (IF cur.special = "three" THEN r.match ELSE r.final)
           ELSE r.matches[cur.match + 1]
  IN IF "special" \in DOMAIN cur
     THEN [round |-> tournament.roundIndex, stage |-> cur.special,
           winnerId |-> m.winner.id]
     ELSE [round |-> tournament.roundIndex, match |-> cur.match,
           winnerId |-> m.winner.id]

\* C15: a step either leaves history as it is, and then it changes nothing
\* else (rejected pick, fast-forward), or it is an accepted pick and appends
\* exactly the entry for the decision under the cursor to an otherwise
\* unchanged history.
C15_HistoryAppendOnly ==
  [][ IF tournament'.history = tournament.history
      THEN tournament' = tournament
      ELSE /\ tournament.cursor # Null
           /\ tournament'.history = Append(tournament.history, ExpectedEntry)
    ]_vars

\* A history of a qualifier entry followed by a final entry.
C15_Witness ==
  /\ Len(tournament.history) >= 2
  /\ LET h == tournament.history
         n == Len(tournament.history)
     IN /\ "stage" \in DOMAIN h[n] /\ h[n].stage = "final"
        /\ "stage" \in DOMAIN h[n - 1] /\ h[n - 1].stage = "three"
        /\ h[n].winnerId = tournament.champion.id

\* C16: the stored cursor is the cursor deriveCursor computes from rounds and
\* roundIndex.
C16_CursorConsistent ==
  tournament.cursor = deriveCursor(tournament)

\* After a pick, the cursor is at the second match of a round.
C16_Witness ==
  /\ tournament.cursor # Null
  /\ "match" \in DOMAIN tournament.cursor
  /\ tournament.cursor.match = 1
  /\ tournament.history # <<>>

\* The list obtained from entrants by the reordering p: position i of the
\* result holds entrants[p[i]].
Reordered(p) == [i \in DOMAIN entrants |-> entrants[p[i]]]

\* The reordering p keeps equally popular entrants in their relative order.
KeepsTieOrder(p) ==
  \A i, j \in DOMAIN entrants :
     (i < j /\ Popularity(entrants[p[i]]) = Popularity(entrants[p[j]]))
        => p[i] < p[j]

\* C17 as claimed: makeRound gives the same round for every ordering of the
\* same survivors.
C17_AnyOrderSameRound ==
  (round # Null) =>
     \A p \in Permutations(DOMAIN entrants) : makeRound(Reordered(p)) = round

\* C17 as amended: makeRound gives the same round for every ordering of the
\* same survivors that keeps equally popular survivors in the same relative
\* order (so for every ordering when all popularities differ).
C17_SameRoundUpToTies ==
  (round # Null) =>
     \A p \in Permutations(DOMAIN entrants) :
        KeepsTieOrder(p) => makeRound(Reordered(p)) = round

\* Five survivors with a tie, for which some reordering other than the
\* identity keeps the tied ones in order.
C17_Witness ==
  /\ round # Null
  /\ Len(entrants) = 5
  /\ \E i, j \in DOMAIN entrants :
       i < j /\ Popularity(entrants[i]) = Popularity(entrants[j])
  /\ \E p \in Permutations(DOMAIN entrants) :
       /\ KeepsTieOrder(p)
       /\ p[1] = 5
       /\ makeRound(Reordered(p)) = round

NormalSlots ==
  {s \in (DOMAIN tournament.rounds) \X (1..MaxEntrants) :
     /\ tournament.rounds[s[1]].type = "normal"
     /\ s[2] \in DOMAIN tournament.rounds[s[1]].matches}

\* The qualifiers and finals that have a winner, as (round, stage) pairs.
DecidedThreeStages ==
  {s \in ThreeRounds \X {"three", "final"} :
     LET r == tournament.rounds[s[1]]
     IN IF s[2] = "three"
        THEN r.match.winner # Null
        ELSE r.final # Null /\ r.final.winner # Null}

\* C20: getTotalDone counts every match of a normal round and two slots for
\* every three round, whether or not its final exists; done counts the
\* decided normal matches and the decided qualifiers and finals. While the
\* tournament is at a qualifier whose final does not exist yet, the three
\* round adds 2 to total and 0 or 1 to done.
C20_ThreeRoundCountsTwo ==
  LET td == getTotalDone(tournament)
      decided == {s \in NormalSlots :
                    tournament.rounds[s[1]].matches[s[2]].winner # Null}
  IN /\ td.total = Cardinality(NormalSlots) + 2 * Cardinality(ThreeRounds)
     /\ td.done = Cardinality(decided) + Cardinality(DecidedThreeStages)
     /\ \A i \in ThreeRounds :
          tournament.rounds[i].final = Null =>
             /\ td.total - Cardinality(NormalSlots)
                  = 2 * Cardinality(ThreeRounds)
             /\ Cardinality({s \in DecidedThreeStages : s[1] = i}) \in {0, 1}

\* Five entrants, both first-round matches decided, the tournament at the
\* qualifier of its three round, whose final does not exist yet: 4 slots,
\* 2 of them done.
C20_Witness ==
  /\ Len(tracks) = 5
  /\ AtStage("three")
  /\ tournament.rounds[tournament.roundIndex + 1].final = Null
  /\ getTotalDone(tournament) = [total |-> 4, done |-> 2]

\* The entrants a match holds (a match that does not exist holds none).
MatchEntrants(m) ==
  IF m = Null THEN {} ELSE {m.a, m.b, m.winner} \ {Null}

\* Every entrant occurring in round r: ranking, bye or top, match slots and
\* winners.
OccurringIn(r) ==
  {r.entrants[i] : i \in DOMAIN r.entrants}
    \cup {r.winners[i] : i \in DOMAIN r.winners}
    \cup (IF r.type = "three"
          THEN ({r.top} \ {Null}) \cup MatchEntrants(r.match)
                 \cup MatchEntrants(r.final)
          ELSE ({r.bye} \ {Null})
                 \cup UNION {MatchEntrants(r.matches[i]) : i \in DOMAIN r.matches})

\* C23: every entrant occurring in a round of the tournament, and the
\* champion, is the entrant of the loaded list with that id, with the same
\* fields.
C23_EntrantsUnchanged ==
  /\ \A i \in DOMAIN tournament.rounds :
       \A e \in OccurringIn(tournament.rounds[i]) :
          e.id \in DOMAIN tracks /\ e = tracks[e.id]
  /\ tournament.champion # Null =>
       /\ tournament.champion.id \in DOMAIN tracks
       /\ tournament.champion = tracks[tournament.champion.id]

\* A champion of positive popularity, crowned in the three round that
\* followed a first round with a bye.
C23_Witness ==
  /\ Len(tracks) = 5
  /\ tournament.champion # Null
  /\ tournament.champion.popularity > 0
  /\ Len(tournament.rounds) = 2
  /\ tournament.rounds[1].bye # Null

\* C24: a cursor into a normal round points at the first match with both
\* slots present and no winner; its index is the number of decided matches
\* of the active round, and every match before it is decided.
C24_CursorFirstPending ==
  (tournament.cursor # Null /\ "match" \in DOMAIN tournament.cursor) =>
     LET r == tournament.rounds[tournament.roundIndex + 1]
         mi == tournament.cursor.match + 1
         pending(k) == /\ r.matches[k].winner = Null
                       /\ r.matches[k].a # Null
                       /\ r.matches[k].b # Null
     IN /\ r.type = "normal"
        /\ tournament.cursor.round = tournament.roundIndex
        /\ mi \in DOMAIN r.matches
        /\ pending(mi)
        /\ \A k \in 1..(mi - 1) : ~pending(k) /\ r.matches[k].winner # Null
        /\ tournament.cursor.match
             = Cardinality({k \in DOMAIN r.matches : r.matches[k].winner # Null})

\* The cursor is at the second of two matches, the first one decided.
C24_Witness ==
  /\ tournament.cursor # Null
  /\ "match" \in DOMAIN tournament.cursor
  /\ tournament.cursor.match = 1
  /\ Len(tournament.rounds[tournament.roundIndex + 1].matches) = 2
  /\ tournament.rounds[tournament.roundIndex + 1].matches[1].winner # Null

\* C25: a pick applied at a cursor into a normal round sets the winner of
\* the match under the cursor to its slot a for side "a" and to its slot b
\* otherwise, and leaves every other match of that round as it was; and a
\* decided match always has both slots present and one of them as winner.
C25_PickDecidesCursorMatch ==
  [][ /\ \A side \in Sides :
           ( /\ tournament.cursor # Null
             /\ "match" \in DOMAIN tournament.cursor
             /\ Pick(side) ) =>
              LET ri == tournament.roundIndex + 1
                  mi == tournament.cursor.match + 1
                  old == tournament.rounds[ri].matches
                  new == tournament'.rounds[ri].matches
              IN /\ old[mi].winner = Null
                 /\ new[mi].winner = (IF side = "a" THEN old[mi].a ELSE old[mi].b)
                 /\ new[mi].winner # Null
                 /\ DOMAIN new = DOMAIN old
                 /\ \A k \in DOMAIN old : k # mi => new[k] = old[k]
      /\ \A i \in DOMAIN tournament'.rounds :
           tournament'.rounds[i].type = "normal" =>
              \A k \in DOMAIN tournament'.rounds[i].matches :
                 LET m == tournament'.rounds[i].matches[k]
                 IN m.winner # Null =>
                      /\ m.a # Null
                      /\ m.b # Null
                      /\ m.winner \in {m.a, m.b}
    ]_vars

\* The second match of a round has been decided for its slot b while the
\* first one had been decided for its slot a.
C25_Witness ==
  /\ tournament.rounds[1].type = "normal"
  /\ Len(tournament.rounds[1].matches) = 2
  /\ tournament.rounds[1].matches[1].winner = tournament.rounds[1].matches[1].a
  /\ tournament.rounds[1].matches[2].winner = tournament.rounds[1].matches[2].b

\* C28: once the champion of a tournament built from n >= 1 entrants is
\* set, exactly n - 1 picks have been recorded.
C28_ChampionAfterNMinusOne ==
  (Len(tracks) >= 1 /\ tournament.champion # Null) =>
     Len(tournament.history) = Len(tracks) - 1

\* A champion of five entrants, crowned through a three round.
C28_Witness ==
  /\ Len(tracks) = 5
  /\ tournament.champion # Null
  /\ ThreeRounds # {}
  /\ Len(tournament.history) = 4

\* C29: the active round is the last round.
C29_ActiveRoundIsLast ==
  tournament.roundIndex = Len(tournament.rounds) - 1

\* A pick has appended a second round and made it the active one.
C29_Witness ==
  /\ Len(tournament.rounds) = 2
  /\ tournament.roundIndex = 1
  /\ tournament.history # <<>>

\* Round r holds no decision yet.
Fresh(r) ==
  IF r.type = "three"
  THEN r.match.winner = Null /\ r.final = Null
  ELSE \A k \in DOMAIN r.matches : r.matches[k].winner = Null

\* C26: a pick that decides the last undecided match of a normal round
\* either crowns the only survivor (match winners plus bye), with a null
\* cursor and no new round, or appends exactly one round holding the
\* survivors, with no decision in it yet, makes it the active round, and
\* leaves the tournament settled, the cursor at a decision of the new round.
C26_RoundCompletion ==
  [][ ( /\ tournament.cursor # Null
        /\ "match" \in DOMAIN tournament.cursor
        /\ tournament' # tournament
        /\ \A k \in DOMAIN tournament'.rounds[tournament.roundIndex + 1].matches :
             tournament'.rounds[tournament.roundIndex + 1].matches[k].winner # Null ) =>
       LET ri == tournament.roundIndex + 1
           r == tournament'.rounds[ri]
           survivors == {r.matches[k].winner : k \in DOMAIN r.matches}
                          \cup ({r.bye} \ {Null})
           n == Len(r.matches) + (IF r.bye # Null THEN 1 ELSE 0)
           last == Len(tournament'.rounds)
       IN IF n = 1
          THEN /\ survivors = {tournament'.champion}
               /\ tournament'.cursor = Null
               /\ Len(tournament'.rounds) = Len(tournament.rounds)
               /\ tournament'.roundIndex = tournament.roundIndex
          ELSE /\ tournament'.champion = Null
               /\ last = Len(tournament.rounds) + 1
               /\ tournament'.roundIndex = tournament.roundIndex + 1
               /\ Len(tournament'.rounds[last].entrants) = n
               /\ {tournament'.rounds[last].entrants[k] :
                     k \in DOMAIN tournament'.rounds[last].entrants} = survivors
               /\ Fresh(tournament'.rounds[last])
               /\ tournament'.cursor # Null
               /\ tournament'.cursor.round = tournament'.roundIndex
               /\ fastForwardIfNeeded(tournament') = tournament'
    ]_vars

\* The second of two first-round matches has just been decided: a round of
\* the two winners is the active one, the cursor at its only match.
C26_Witness ==
  /\ Len(tracks) = 4
  /\ Len(tournament.rounds) = 2
  /\ Len(tournament.history) = 2
  /\ tournament.roundIndex = 1
  /\ tournament.cursor = [round |-> 1, match |-> 0]

\* The tournament has no champion and its active round is a normal round
\* with every match decided.
ActiveRoundDecided ==
  /\ tournament.champion = Null
  /\ tournament.rounds[tournament.roundIndex + 1].type = "normal"
  /\ \A k \in DOMAIN tournament.rounds[tournament.roundIndex + 1].matches :
       tournament.rounds[tournament.roundIndex + 1].matches[k].winner # Null

\* C27: fastForwardIfNeeded of a snapshot without champion whose active
\* round is normal and fully decided crowns the only survivor (match winners
\* plus bye) and appends nothing, or appends the round of the survivors,
\* makes it the active round and stops there with the cursor at its pending
\* decision; history and the earlier rounds are kept.  Of a snapshot whose
\* cursor is not null it keeps rounds, roundIndex, champion and history.
C27_SettleCompletesRound ==
  LET s == fastForwardIfNeeded(tournament)
      ri == tournament.roundIndex + 1
      r == tournament.rounds[ri]
      survivors == {r.matches[k].winner : k \in DOMAIN r.matches}
                     \cup ({r.bye} \ {Null})
      n == Len(r.matches) + (IF r.bye # Null THEN 1 ELSE 0)
      last == Len(s.rounds)
  IN /\ ActiveRoundDecided =>
          /\ s.history = tournament.history
          /\ IF n = 1
             THEN /\ survivors = {s.champion}
                  /\ s.rounds = tournament.rounds
                  /\ s.roundIndex = tournament.roundIndex
                  /\ s.cursor = Null
             ELSE /\ s.champion = Null
                  /\ last = Len(tournament.rounds) + 1
                  /\ \A i \in DOMAIN tournament.rounds :
                       s.rounds[i] = tournament.rounds[i]
                  /\ s.roundIndex = tournament.roundIndex + 1
                  /\ Len(s.rounds[last].entrants) = n
                  /\ {s.rounds[last].entrants[k] :
                        k \in DOMAIN s.rounds[last].entrants} = survivors
                  /\ Fresh(s.rounds[last])
                  /\ s.cursor # Null
                  /\ s.cursor.round = s.roundIndex
     /\ tournament.cursor # Null =>
          /\ s.rounds = tournament.rounds
          /\ s.roundIndex = tournament.roundIndex
          /\ s.champion = tournament.champion
          /\ s.history = tournament.history

\* A snapshot of five entrants whose first round (two matches and a bye) is
\* fully decided while no second round exists yet.
C27_Witness ==
  /\ Len(tracks) = 5
  /\ ActiveRoundDecided
  /\ tournament.roundIndex = 0
  /\ Len(tournament.rounds) = 1
  /\ tournament.rounds[1].bye # Null
  /\ fastForwardIfNeeded(tournament).rounds[2].type = "three"

\* The tournament with champion and cursor forgotten, as an argument on
\* which fastForwardIfNeeded has to recompute them.
Forgotten == [tournament EXCEPT !.champion = Null, !.cursor = Null]

\* C30: fastForwardIfNeeded returns every reachable tournament as it is, so
\* "Continue" never changes the tournament; and applying it twice gives what
\* applying it once gives, also where once changes the argument.
C30_SettleIsIdentity ==
  /\ [](/\ fastForwardIfNeeded(tournament) = tournament
        /\ fastForwardIfNeeded(fastForwardIfNeeded(Forgotten))
             = fastForwardIfNeeded(Forgotten))
  /\ [][Continue => tournament' = tournament]_vars

\* A tournament with picks applied and a champion, on which "Continue" is
\* pressed.
C30_Witness ==
  /\ Len(tracks) = 4
  /\ tournament.champion # Null
  /\ Len(tournament.history) = 3
  /\ fastForwardIfNeeded(Forgotten) # Forgotten

\* The one result still to be stored was computed from a snapshot that is no
\* longer the current tournament.
StaleWritePending ==
  /\ Len(inflight) = 1
  /\ inflight[1].from # tournament

\* C21: when two applyPick results computed from the same snapshot are
\* stored one after the other, the second store leaves the second result as
\* the current tournament: its history is one entry longer than the
\* snapshot's, as long as it was after the first store, not two.
C21_LostUpdate ==
  [][ (StaleWritePending /\ Len(inflight') = 0) =>
        /\ tournament' = inflight[1].result
        /\ Len(tournament'.history) = Len(inflight[1].from.history) + 1
        /\ Len(tournament'.history) = Len(tournament.history)
    ]_vars

\* Two different picks were computed from one snapshot, the first result is
\* stored and the second one is about to be.
C21_Witness ==
  /\ StaleWritePending
  /\ inflight[1].result # tournament
  /\ Len(tournament.history) = Len(inflight[1].from.history) + 1
  /\ Len(tournament.history) = 2

\* C22 as claimed: while a scheduled pick has not been applied no further
\* tap is accepted, so at most one pick is pending; and every scheduled
\* pick, when applied, adds exactly one history entry.
C22_OnePickInFlight ==
  /\ [](Len(timers) <= 1)
  /\ [][ (Len(timers') = Len(timers) - 1) =>
           /\ tournament # Null
           /\ Len(tournament'.history) = Len(tournament.history) + 1
       ]_vars

\* The entrants of match m that lost it (none while m is undecided or does
\* not exist).
LosersOf(m) ==
  IF m = Null THEN {}
  ELSE IF m.winner = Null THEN {}
  ELSE {m.a, m.b} \ {m.winner}

\* The entrants that lost a match of round i.
RoundLosers(i) ==
  LET r == tournament.rounds[i]
  IN IF r.type = "three"
     THEN LosersOf(r.match) \cup LosersOf(r.final)
     ELSE UNION {LosersOf(r.matches[k]) : k \in DOMAIN r.matches}

\* C31: the entrants of a round are among those of the round before; who
\* lost a match is in no later round, the loser of a qualifier is not in the
\* final, and the champion lost no match.
C31_EliminatedStayOut ==
  /\ \A i \in DOMAIN tournament.rounds :
       /\ (i + 1) \in DOMAIN tournament.rounds =>
             RoundEntrants(i + 1) \subseteq RoundEntrants(i)
       /\ \A j \in DOMAIN tournament.rounds :
             i < j => RoundLosers(i) \cap RoundEntrants(j) = {}
       /\ (tournament.rounds[i].type = "three"
             /\ tournament.rounds[i].final # Null) =>
             LosersOf(tournament.rounds[i].match)
               \cap {tournament.rounds[i].final.a, tournament.rounds[i].final.b} = {}
  /\ tournament.champion # Null =>
       \A i \in DOMAIN tournament.rounds :
          tournament.champion \notin RoundLosers(i)

\* A finished tournament of five: two first-round losers, then a qualifier
\* loser and a final loser in the three round.
C31_Witness ==
  /\ Len(tracks) = 5
  /\ tournament.champion # Null
  /\ Len(tournament.rounds) = 2
  /\ Cardinality(RoundLosers(1)) = 2
  /\ Cardinality(RoundLosers(2)) = 2

\* C32: the champion of a tournament of two or more entrants is the winner
\* recorded by the last pick, and the last round is a three round or a
\* normal round of one match without bye.
C32_ChampionWonLastPick ==
  (Len(tracks) >= 2 /\ tournament.champion # Null) =>
     LET last == tournament.rounds[Len(tournament.rounds)]
     IN /\ tournament.history # <<>>
        /\ tournament.history[Len(tournament.history)].winnerId
             = tournament.champion.id
        /\ \/ last.type = "three"
           \/ /\ last.type = "normal"
              /\ Len(last.matches) = 1
              /\ last.bye = Null

\* The champion of a three round is the qualifier winner, not the top
\* entrant.
C32_Witness ==
  /\ tournament.champion # Null
  /\ ThreeRounds # {}
  /\ tournament.champion # tournament.rounds[Len(tournament.rounds)].top

\* C33: there is at most one three round and it is the last round; once its
\* final is decided the champion is the winner of the final.
C33_ThreeRoundIsLast ==
  /\ Cardinality(ThreeRounds) <= 1
  /\ \A i \in ThreeRounds :
       /\ i = Len(tournament.rounds)
       /\ (tournament.rounds[i].final # Null
             /\ tournament.rounds[i].final.winner # Null) =>
             tournament.champion = tournament.rounds[i].final.winner
       /\ tournament.champion # Null =>
             /\ tournament.rounds[i].final # Null
             /\ tournament.champion = tournament.rounds[i].final.winner

\* A three round that follows a normal round has its final decided.
C33_Witness ==
  /\ Len(tournament.rounds) = 2
  /\ ThreeRounds = {2}
  /\ tournament.rounds[2].final # Null
  /\ tournament.rounds[2].final.winner # Null

\* The slots of round r in which entrant e sits: (match, side) pairs, the
\* qualifier of a three round being match 1.
SeatsOf(e, r) ==
  IF r.type = "three"
  THEN {s \in {1} \X Sides :
          e = (IF s[2] = "a" THEN r.match.a ELSE r.match.b)}
  ELSE {s \in (DOMAIN r.matches) \X Sides :
          e = (IF s[2] = "a" THEN r.matches[s[1]].a ELSE r.matches[s[1]].b)}

\* C34: in a built round every present entrant is either the bye (the top
\* of a three round) and in no slot, or in exactly one slot; no match has an
\* empty slot or the same entrant twice.
C34_RoundPartitionsEntrants ==
  (round # Null /\ round.type \in {"three", "normal"}) =>
     LET ms == IF round.type = "three" THEN <<round.match>> ELSE round.matches
         resting == IF round.type = "three" THEN round.top ELSE round.bye
     IN /\ \A e \in AliveSet :
             IF e = resting
             THEN SeatsOf(e, round) = {}
             ELSE Cardinality(SeatsOf(e, round)) = 1
        /\ resting # Null => resting \in AliveSet
        /\ \A k \in DOMAIN ms :
             /\ ms[k].a # Null
             /\ ms[k].b # Null
             /\ ms[k].a # ms[k].b
             /\ {ms[k].a, ms[k].b} \subseteq AliveSet

\* A normal round of five present entrants: a bye and two matches.
C34_Witness ==
  /\ round # Null
  /\ round.type = "normal"
  /\ Cardinality(AliveSet) = 5
  /\ round.bye # Null
  /\ Len(round.matches) = 2

\* The matches of round r that exist: its matches, or its qualifier and its
\* final.
MatchesOf(r) ==
  IF r.type = "three"
  THEN {r.match, r.final} \ {Null}
  ELSE {r.matches[k] : k \in DOMAIN r.matches}

\* C35: in every match of every round slot a is at least as popular as slot
\* b, so normalizePair keeps a on top and reports no swap.
C35_SlotANotLessPopular ==
  \A i \in DOMAIN tournament.rounds :
     \A m \in MatchesOf(tournament.rounds[i]) :
        /\ Popularity(m.a) >= Popularity(m.b)
        /\ normalizePair(m.a, m.b) = [top |-> m.a, bottom |-> m.b,
                                       swapped |-> FALSE]

\* A final between a top entrant and a strictly less popular qualifier
\* winner.
C35_Witness ==
  /\ AtStage("final")
  /\ Popularity(cursorMatch(tournament).a) > Popularity(cursorMatch(tournament).b)

\* C36: the done count of getTotalDone is the number of picks recorded in
\* history.
C36_DoneIsHistoryLength ==
  getTotalDone(tournament).done = Len(tournament.history)

\* Four picks in a tournament of five: two matches, a qualifier, a final.
C36_Witness ==
  /\ Len(tracks) = 5
  /\ Len(tournament.history) = 4
  /\ getTotalDone(tournament).done = 4

\* C37: for a tournament of one entrant or more, done never exceeds total,
\* and they are equal exactly when the champion is set.
C37_CompleteIffChampion ==
  (Len(tracks) >= 1) =>
     /\ getTotalDone(tournament).done <= getTotalDone(tournament).total
     /\ (getTotalDone(tournament).done = getTotalDone(tournament).total)
          <=> (tournament.champion # Null)

\* The last match of a first round with a bye is decided: the next round is
\* there and counted, so done stays below total.
C37_Witness ==
  /\ Len(tracks) = 5
  /\ tournament.champion = Null
  /\ Len(tournament.rounds) = 2
  /\ tournament.rounds[1].bye # Null
  /\ getTotalDone(tournament) = [total |-> 4, done |-> 2]

\* C38 as claimed: when the tournament is no longer the one that was shown
\* at the tap (it was reset, or replaced by a newly loaded one), the pending
\* pick changes nothing when its timer fires.
C38_StalePickChangesNothing ==
  [][ ( /\ timers # <<>>
        /\ Len(timers') = Len(timers) - 1
        /\ timers[1].shown # tournament ) =>
          tournament' = tournament
    ]_vars

====
